---- MODULE Spec2Model ----
(***************************************************************************)
(* State-machine model of AirControlBaseAPI                                *)
(* (custom_components/aircontrolbase/api.py).                              *)
(*                                                                         *)
(* One client object (user id, session id, last update time) is shared by  *)
(* the tasks that call its coroutines.  A coroutine is cut at its awaits:  *)
(* the POST (session.post) and the body read (response.json()).  Between   *)
(* two awaits the code runs as one step.                                   *)
(*                                                                         *)
(* JSON scalars are modelled by their JSON text, so the string "200" is    *)
(* the TLA+ string "\"200\"" and the number 200 is the TLA+ string "200".  *)
(***************************************************************************)
EXTENDS Integers, Sequences, FiniteSets, TLC

VARIABLES
    user_id,            \* self._user_id
    session_id,         \* self._session_id
    last_update_time,   \* self._last_update_time
    now,                \* int(time.time() * 1000)
    task,               \* per task: position, request in flight, result, history of the call
    last_login          \* what the response of the latest successful login carried

vars == <<user_id, session_id, last_update_time, now, task, last_login>>

----------------------------------------------------------------------------
(* Bounds of the model *)

\* number of clock ticks the model lets pass
MaxTicks == 3
\* milliseconds per clock tick
TickMs == 2500
\* longest "areas" list in a device-list response
MaxAreas == 2

(* Program constants *)

\* avoid_refresh_status_on_update_in_ms, constructor default
AvoidRefreshMs == 5000

\* the tasks that exist, and the ones the sequential host drives
AllTasks == {1, 2}
SeqTasks == {1}

----------------------------------------------------------------------------
(* Values *)

\* Python None, and a key that is missing from a JSON object
None == "None"
Absent == "absent"

\* "not x" / "if x" on an optional string
Falsy(x) == x = None \/ x = ""

\* the literal success marker of the vendor API ("operation successful")
SuccessMsg == "\"operation successful\""
\* a message with which the server reports an expired session
ReloginMsg == "\"session expired\""

UserIds == {"u1", "u2"}

\* Set-Cookie header lists a login response may carry
CookieLists == {<<>>, <<"sid=1">>, <<"sid=2">>, <<"sid=1", "tok=9">>}

\* what the server puts in an area's "data"
AreaDatas == {<<>>, <<"A">>, <<"A", "B">>, <<"C">>, <<"B", "A">>}

Areas == {[hasData |-> TRUE, data |-> d] : d \in AreaDatas}
             \cup {[hasData |-> FALSE, data |-> <<>>]}

RECURSIVE SeqsUpTo(_, _)
SeqsUpTo(S, n) ==
    IF n = 0 THEN {<<>>}
    ELSE LET shorter == SeqsUpTo(S, n - 1)
         IN  shorter \cup {Append(s, x) : s \in {q \in shorter : Len(q) = n - 1}, x \in S}

AreaLists == SeqsUpTo(Areas, MaxAreas)

\* the "result" member of a response body
AbsentResult == [kind |-> "absent", hasId |-> FALSE, id |-> None,
                 hasAreas |-> FALSE, areas |-> <<>>]
NullResult == [AbsentResult EXCEPT !.kind = "null"]
EmptyResult == [AbsentResult EXCEPT !.kind = "obj"]
LoginResults == {AbsentResult, NullResult, EmptyResult}
                    \cup {[EmptyResult EXCEPT !.hasId = TRUE, !.id = u] : u \in UserIds}
ListResults == {AbsentResult, NullResult, EmptyResult}
                    \cup {[EmptyResult EXCEPT !.hasAreas = TRUE, !.areas = a] : a \in AreaLists}

Codes == {"\"200\"", "200", "\"401\"", "401", "\"500\"", Absent}
Msgs == {SuccessMsg, ReloginMsg, Absent}

NoBody == [kind |-> "none", code |-> Absent, msg |-> Absent, result |-> AbsentResult]
\* a body response.json() cannot parse
BadBody == [NoBody EXCEPT !.kind = "bad"]
JsonBodies(results) ==
    {[kind |-> "json", code |-> c, msg |-> m, result |-> r] :
        c \in Codes, m \in Msgs, r \in results}

LoginBodies == JsonBodies(LoginResults) \cup {BadBody}
ListBodies == JsonBodies(ListResults) \cup {BadBody}
ControlBodies == JsonBodies({AbsentResult}) \cup {BadBody}

\* what the awaited POST gives: a response (status, Set-Cookie headers), or an
\* exception of the transport or of async_timeout
PostOutcomes(cookieLists) ==
    {[kind |-> "response", status |-> s, cookies |-> c] :
        s \in {200, 401, 403, 500}, c \in cookieLists}
    \cup {[kind |-> k, status |-> 0, cookies |-> <<>>] : k \in {"ClientError", "TimeoutError"}}

\* the arguments of control_device: dicts as sequences of <<key, JSON text of value>>
Controls == {<< <<"power", "\"y\"">> >>, << <<"power", "\"n\"">>, <<"id", "7">> >>}
Operations == {<< <<"power", "\"y\"">> >>, << <<"mode", "\"cool\"">> >>}

----------------------------------------------------------------------------
(* Conversions *)

\* '; '.join(cookies)
RECURSIVE JoinCookies(_)
JoinCookies(cs) ==
    IF Len(cs) = 0 THEN ""
    ELSE IF Len(cs) = 1 THEN cs[1]
    ELSE cs[1] \o "; " \o JoinCookies(Tail(cs))

\* json.dumps of a dict of already-encoded values
RECURSIVE DumpItems(_)
DumpItems(d) ==
    IF Len(d) = 0 THEN ""
    ELSE LET item == "\"" \o d[1][1] \o "\": " \o d[1][2]
         IN  IF Len(d) = 1 THEN item ELSE item \o ", " \o DumpItems(Tail(d))

json_dumps(d) == "{" \o DumpItems(d) \o "}"

----------------------------------------------------------------------------
(* The record a step works on: the client's fields, the clock, and the     *)
(* calling task's own state.                                               *)
(*   pc      where the task's coroutine is suspended                       *)
(*   op      the coroutine the host called                                 *)
(*   req     the POST in flight                                            *)
(*   cookies the Set-Cookie headers of the last login response read        *)
(*   ret     how the called coroutine ended                                *)
(*   posts   POSTs sent during this call, per endpoint                     *)
(*   body    the last body read during this call                           *)
(*   pre     the client's fields and the clock when the call was made      *)
(*   logins  logins that succeeded during this call                        *)
(*   ll      the user id and Set-Cookie headers of the latest successful   *)
(*           login's response (last_login)                                 *)

NoReq == [endpoint |-> "none", userId |-> None, hasCookie |-> FALSE, cookie |-> "",
          control |-> "", operation |-> ""]
NoRet == [status |-> "none", devices |-> <<>>, flag |-> FALSE,
          kind |-> "", cause |-> "", http |-> 0]
NoPosts == [login |-> 0, list |-> 0, control |-> 0]
NoPre == [uid |-> None, sid |-> None, last |-> 0, now |-> 0]

\* no login has succeeded yet
NoLogin == [id |-> None, cookies |-> <<>>]

IdleTask == [pc |-> "idle", op |-> "none", req |-> NoReq, cookies |-> <<>>,
             ret |-> NoRet, posts |-> NoPosts, body |-> NoBody, pre |-> NoPre,
             logins |-> 0]

Ctx(t) == [uid |-> user_id, sid |-> session_id, last |-> last_update_time, now |-> now,
           pc |-> task[t].pc, op |-> task[t].op, req |-> task[t].req,
           cookies |-> task[t].cookies, ret |-> task[t].ret, posts |-> task[t].posts,
           body |-> task[t].body, pre |-> task[t].pre, logins |-> task[t].logins,
           ll |-> last_login]

\* a coroutine returns / raises: the task is no longer suspended on a request
Returns(c, devices, flag) ==
    [c EXCEPT !.pc = "done", !.req = NoReq,
              !.ret = [NoRet EXCEPT !.status = "returned", !.devices = devices,
                                    !.flag = flag]]

Raises(c, kind, cause, http) ==
    [c EXCEPT !.pc = "done", !.req = NoReq,
              !.ret = [NoRet EXCEPT !.status = "raised", !.kind = kind,
                                    !.cause = cause, !.http = http]]

\* the Cookie header set whenever the session id is not None
WithCookieUnlessNone(r, sid) ==
    IF sid = None THEN r ELSE [r EXCEPT !.hasCookie = TRUE, !.cookie = sid]

\* headers["Cookie"] = self._session_id, only if self._session_id
WithCookie(r, sid) ==
    IF Falsy(sid) THEN r ELSE [r EXCEPT !.hasCookie = TRUE, !.cookie = sid]

\* the success check with the numeric code forgotten
IsSuccessStringCodeOnly(b) ==
    b.code = "\"200\"" \/ b.msg = SuccessMsg

\* result.get("code") == "200" or result.get("code") == 200 or result.get("msg") == marker
IsSuccess(b) ==
    b.code = "\"200\"" \/ b.code = "200" \/ b.msg = SuccessMsg

----------------------------------------------------------------------------
(* login *)

LoginUrl == "/web/user/login"
DetailsUrl == "/web/userGroup/getDetails"
ControlUrl == "/web/device/control"

\* login up to its POST
login(c) ==
    [c EXCEPT !.pc = "login_post",
              !.req = [NoReq EXCEPT !.endpoint = LoginUrl],
              !.posts.login = @ + 1]

\* except Exception as e: raise Exception(f"Authentication failed: {e}")
login_except(c, cause, http) == Raises(c, "Exception", cause, http)

\* the POST is answered: the status check, up to the body read
login_response(c, r) ==
    IF r.kind # "response" THEN login_except(c, r.kind, 0)
    ELSE IF r.status # 200 THEN login_except(c, "HTTP error", r.status)
    ELSE [c EXCEPT !.pc = "login_json", !.req = NoReq, !.cookies = r.cookies]

\* "result" in result and "id" in result["result"]
HasUserId(b) == b.result.kind = "obj" /\ b.result.hasId

\* the session id taken from the first Set-Cookie header alone
LoginSessionIdFirstOnly(cookies) == IF Len(cookies) > 0 THEN cookies[1] ELSE ""

\* the session id kept from the Set-Cookie headers
LoginSessionId(cookies) == IF Len(cookies) > 0 THEN JoinCookies(cookies) ELSE ""

\* the success branch with the cookies stored before the user id is looked for
login_store_cookies_first(c, b) ==
    LET c1 == [c EXCEPT !.sid = LoginSessionId(c.cookies)]
    IN  IF b.result.kind = "null" THEN login_except(c1, "TypeError", 0)
        ELSE IF HasUserId(b)
        THEN Returns([c1 EXCEPT !.uid = b.result.id, !.logins = @ + 1,
                                !.ll = [id |-> b.result.id, cookies |-> c.cookies]],
                     <<>>, FALSE)
        ELSE login_except(c1, "No user ID in response", 0)

login_store_suspended(c, b) ==
    IF b.result.kind = "null" THEN login_except(c, "TypeError", 0)
    ELSE IF HasUserId(b)
    THEN [c EXCEPT !.uid = b.result.id, !.pc = "login_cookies"]
    ELSE login_except(c, "No user ID in response", 0)

\* the success branch: user id, then cookies
login_store(c, b) ==
    IF b.result.kind = "null" THEN login_except(c, "TypeError", 0)
    ELSE IF HasUserId(b)
    THEN Returns([c EXCEPT !.uid = b.result.id,
                           !.sid = LoginSessionId(c.cookies),
                           !.logins = @ + 1,
                           !.ll = [id |-> b.result.id, cookies |-> c.cookies]],
                 <<>>, FALSE)
    ELSE login_except(c, "No user ID in response", 0)

\* the body is read: parse, success check, store or fail
login_json(c, b) ==
    LET c1 == [c EXCEPT !.body = b]
    IN  IF b.kind = "bad" THEN login_except(c1, "Invalid response format", 0)
        ELSE IF IsSuccess(b) THEN login_store(c1, b)
        ELSE login_except(c1, "Login failed", 0)

----------------------------------------------------------------------------
(* get_devices *)

\* self._last_update_time > 0 and now - self._last_update_time < interval
Debounced(last, nowv) == last > 0 /\ nowv - last < AvoidRefreshMs

\* get_devices up to its POST
get_devices(c) ==
    IF Debounced(c.last, c.now) THEN Returns(c, <<>>, FALSE)
    ELSE IF Falsy(c.uid) THEN Raises(c, "Exception", "Not authenticated", 0)
    ELSE [c EXCEPT !.pc = "gd_post",
                   !.req = WithCookie([NoReq EXCEPT !.endpoint = DetailsUrl,
                                                    !.userId = c.uid], c.sid),
                   !.posts.list = @ + 1]

\* except Exception as e: raise Exception(f"Failed to get devices: {e}")
get_devices_except(c, cause, http) == Raises(c, "Exception", cause, http)

\* the status check with HTTP 401/403 answered by sending the POST again
get_devices_response_resend(c, r) ==
    IF r.kind # "response" THEN get_devices_except(c, r.kind, 0)
    ELSE IF r.status \in {401, 403} THEN [c EXCEPT !.posts.list = @ + 1]
    ELSE IF r.status # 200 THEN get_devices_except(c, "HTTP error", r.status)
    ELSE [c EXCEPT !.pc = "gd_json", !.req = NoReq]

get_devices_response(c, r) ==
    IF r.kind # "response" THEN get_devices_except(c, r.kind, 0)
    ELSE IF r.status # 200 THEN get_devices_except(c, "HTTP error", r.status)
    ELSE [c EXCEPT !.pc = "gd_json", !.req = NoReq]

\* the loop with each area's data put in front of what was collected
RECURSIVE ExtendInFront(_)
ExtendInFront(areas) ==
    IF Len(areas) = 0 THEN <<>>
    ELSE ExtendInFront(Tail(areas)) \o (IF areas[1].hasData THEN areas[1].data ELSE <<>>)

\* all_devices.extend(area.get("data", [])) for each area, in order
RECURSIVE Extend(_)
Extend(areas) ==
    IF Len(areas) = 0 THEN <<>>
    ELSE (IF areas[1].hasData THEN areas[1].data ELSE <<>>) \o Extend(Tail(areas))

\* if result.get("result", {}).get("areas"): ...
all_devices(res) ==
    IF res.kind = "obj" /\ res.hasAreas /\ Len(res.areas) > 0
    THEN Extend(res.areas) ELSE <<>>

get_devices_json(c, b) ==
    LET c1 == [c EXCEPT !.body = b]
    IN  IF b.kind = "bad" THEN get_devices_except(c1, "JSONDecodeError", 0)
        ELSE IF IsSuccess(b)
        THEN IF b.result.kind = "null"
             THEN get_devices_except(c1, "AttributeError", 0)
             ELSE Returns(c1, all_devices(b.result), FALSE)
        ELSE get_devices_except(c1, "Failed to get devices", 0)

----------------------------------------------------------------------------
(* control_device *)

\* control_device sending the control argument in the "control" field
control_device_sending_control(c, control, operation) ==
    IF Falsy(c.uid) THEN Raises(c, "Exception", "Not authenticated", 0)
    ELSE [c EXCEPT !.last = c.now,
                   !.pc = "cd_post",
                   !.req = WithCookie([NoReq EXCEPT !.endpoint = ControlUrl,
                                                    !.userId = c.uid,
                                                    !.control = json_dumps(control),
                                                    !.operation = json_dumps(operation)],
                                      c.sid),
                   !.posts.control = @ + 1]

\* control_device up to its POST
control_device(c, control, operation) ==
    IF Falsy(c.uid) THEN Raises(c, "Exception", "Not authenticated", 0)
    ELSE [c EXCEPT !.last = c.now,
                   !.pc = "cd_post",
                   !.req = WithCookie([NoReq EXCEPT !.endpoint = ControlUrl,
                                                    !.userId = c.uid,
                                                    !.control = json_dumps(operation),
                                                    !.operation = json_dumps(operation)],
                                      c.sid),
                   !.posts.control = @ + 1]

\* except Exception as e: raise Exception(f"Device control failed: {e}")
control_device_except(c, cause, http) == Raises(c, "Exception", cause, http)

control_device_response(c, r) ==
    IF r.kind # "response" THEN control_device_except(c, r.kind, 0)
    ELSE IF r.status # 200 THEN control_device_except(c, "HTTP error", r.status)
    ELSE [c EXCEPT !.pc = "cd_json", !.req = NoReq]

control_device_json(c, b) ==
    LET c1 == [c EXCEPT !.body = b]
    IN  IF b.kind = "bad" THEN control_device_except(c1, "JSONDecodeError", 0)
        ELSE IF IsSuccess(b) THEN Returns(c1, <<>>, FALSE)
        ELSE control_device_except(c1, "Control failed", 0)

----------------------------------------------------------------------------
(* getDetails: as get_devices without the debounce check; its except       *)
(* clause re-raises the exception as it is                                 *)

\* getDetails recording the time of the call as control_device does
getDetails_stamping(c) ==
    IF Falsy(c.uid) THEN Raises(c, "Exception", "Not authenticated", 0)
    ELSE [c EXCEPT !.last = c.now,
                   !.pc = "det_post",
                   !.req = WithCookie([NoReq EXCEPT !.endpoint = DetailsUrl,
                                                    !.userId = c.uid], c.sid),
                   !.posts.list = @ + 1]

getDetails(c) ==
    IF Falsy(c.uid) THEN Raises(c, "Exception", "Not authenticated", 0)
    ELSE [c EXCEPT !.pc = "det_post",
                   !.req = WithCookie([NoReq EXCEPT !.endpoint = DetailsUrl,
                                                    !.userId = c.uid], c.sid),
                   !.posts.list = @ + 1]

getDetails_response(c, r) ==
    IF r.kind # "response" THEN Raises(c, r.kind, r.kind, 0)
    ELSE IF r.status # 200 THEN Raises(c, "Exception", "HTTP error", r.status)
    ELSE [c EXCEPT !.pc = "det_json", !.req = NoReq]

getDetails_json(c, b) ==
    LET c1 == [c EXCEPT !.body = b]
    IN  IF b.kind = "bad" THEN Raises(c1, "JSONDecodeError", "JSONDecodeError", 0)
        ELSE IF IsSuccess(b)
        THEN IF b.result.kind = "null"
             THEN Raises(c1, "AttributeError", "AttributeError", 0)
             ELSE Returns(c1, all_devices(b.result), FALSE)
        ELSE Raises(c1, "Exception", "API error", 0)

----------------------------------------------------------------------------
(* test_connection and ensure_authenticated *)

\* except Exception as e: log it, return False
test_connection_except(c) ==
    [Returns(c, <<>>, FALSE) EXCEPT !.ret.cause = c.ret.cause, !.ret.http = c.ret.http]

\* devices = await self.get_devices(); return True
test_connection_devices(c) ==
    IF c.pc # "done" THEN c
    ELSE IF c.ret.status = "raised" THEN test_connection_except(c)
    ELSE Returns(c, <<>>, TRUE)

\* await self.login() has ended: go on with get_devices
test_connection_login(c) ==
    IF c.pc # "done" THEN c
    ELSE IF c.ret.status = "raised" THEN test_connection_except(c)
    ELSE test_connection_devices(get_devices([c EXCEPT !.ret = NoRet, !.body = NoBody]))

\* ensure_authenticated logging in without looking at the session
ensure_authenticated_always_login(c) == login(c)

\* if not self._user_id or not self._session_id: await self.login()
ensure_authenticated(c) ==
    IF Falsy(c.uid) \/ Falsy(c.sid) THEN login(c) ELSE Returns(c, <<>>, FALSE)

\* config_flow.async_step_user, from the end of its test_connection call:
\* the entry is created, or errors["base"] is set
async_step_user(ret) ==
    IF ret.status = "raised"
    THEN CASE ret.kind = "AirControlBaseConnectionError" -> "cannot_connect"
           [] ret.kind = "AirControlBaseAuthError" -> "invalid_auth"
           [] OTHER -> "unknown"
    ELSE IF ret.flag THEN "create_entry" ELSE "invalid_auth"

\* the caller's code that runs when an awaited login / get_devices ends
AfterLogin(c) == IF c.op = "test_connection" THEN test_connection_login(c) ELSE c
AfterGetDevices(c) == IF c.op = "test_connection" THEN test_connection_devices(c) ELSE c

----------------------------------------------------------------------------
(* The state machine *)

Init ==
    /\ user_id = None
    /\ session_id = None
    /\ last_update_time = 0
    /\ now = TickMs
    /\ task = [t \in AllTasks |-> IdleTask]
    /\ last_login = NoLogin

\* the host calls coroutine o: the call's history starts empty
Start(c, o) ==
    [c EXCEPT !.op = o, !.ret = NoRet, !.posts = NoPosts, !.body = NoBody, !.logins = 0,
              !.pre = [uid |-> c.uid, sid |-> c.sid, last |-> c.last, now |-> c.now]]

Apply(t, c) ==
    /\ user_id' = c.uid
    /\ session_id' = c.sid
    /\ last_update_time' = c.last
    /\ last_login' = c.ll
    /\ task' = [task EXCEPT ![t] =
                   [pc |-> c.pc, op |-> c.op, req |-> c.req, cookies |-> c.cookies,
                    ret |-> c.ret, posts |-> c.posts, body |-> c.body, pre |-> c.pre,
                    logins |-> c.logins]]
    /\ UNCHANGED now

CallLogin(t) ==
    /\ task[t].pc = "idle"
    /\ Apply(t, login(Start(Ctx(t), "login")))

CallGetDevices(t) ==
    /\ task[t].pc = "idle"
    /\ Apply(t, get_devices(Start(Ctx(t), "get_devices")))

CallControlDevice(t) ==
    /\ task[t].pc = "idle"
    /\ \E control \in Controls, operation \in Operations :
          Apply(t, control_device(Start(Ctx(t), "control_device"), control, operation))

CallGetDetails(t) ==
    /\ task[t].pc = "idle"
    /\ Apply(t, getDetails(Start(Ctx(t), "getDetails")))

CallTestConnection(t) ==
    /\ task[t].pc = "idle"
    /\ Apply(t, login(Start(Ctx(t), "test_connection")))

CallEnsureAuthenticated(t) ==
    /\ task[t].pc = "idle"
    /\ Apply(t, ensure_authenticated(Start(Ctx(t), "ensure_authenticated")))

LoginResponse(t) ==
    /\ task[t].pc = "login_post"
    /\ \E r \in PostOutcomes(CookieLists) : Apply(t, AfterLogin(login_response(Ctx(t), r)))

LoginJson(t) ==
    /\ task[t].pc = "login_json"
    /\ \E b \in LoginBodies : Apply(t, AfterLogin(login_json(Ctx(t), b)))

GetDevicesResponse(t) ==
    /\ task[t].pc = "gd_post"
    /\ \E r \in PostOutcomes({<<>>}) :
          Apply(t, AfterGetDevices(get_devices_response(Ctx(t), r)))

GetDevicesJson(t) ==
    /\ task[t].pc = "gd_json"
    /\ \E b \in ListBodies : Apply(t, AfterGetDevices(get_devices_json(Ctx(t), b)))

ControlDeviceResponse(t) ==
    /\ task[t].pc = "cd_post"
    /\ \E r \in PostOutcomes({<<>>}) : Apply(t, control_device_response(Ctx(t), r))

ControlDeviceJson(t) ==
    /\ task[t].pc = "cd_json"
    /\ \E b \in ControlBodies : Apply(t, control_device_json(Ctx(t), b))

GetDetailsResponse(t) ==
    /\ task[t].pc = "det_post"
    /\ \E r \in PostOutcomes({<<>>}) : Apply(t, getDetails_response(Ctx(t), r))

GetDetailsJson(t) ==
    /\ task[t].pc = "det_json"
    /\ \E b \in ListBodies : Apply(t, getDetails_json(Ctx(t), b))

\* the result is handed to the host, which may call again
Return(t) ==
    /\ task[t].pc = "done"
    /\ task' = [task EXCEPT ![t] = IdleTask]
    /\ UNCHANGED <<user_id, session_id, last_update_time, now, last_login>>

\* time passes, between calls and while a request is in flight
Tick ==
    /\ now + TickMs <= MaxTicks * TickMs
    /\ \A t \in AllTasks : task[t].pc # "done"
    /\ now' = now + TickMs
    /\ UNCHANGED <<user_id, session_id, last_update_time, task, last_login>>

Step(t) ==
    \/ CallLogin(t)
    \/ CallGetDevices(t)
    \/ CallControlDevice(t)
    \/ CallGetDetails(t)
    \/ CallTestConnection(t)
    \/ CallEnsureAuthenticated(t)
    \/ LoginResponse(t)
    \/ LoginJson(t)
    \/ GetDevicesResponse(t)
    \/ GetDevicesJson(t)
    \/ ControlDeviceResponse(t)
    \/ ControlDeviceJson(t)
    \/ GetDetailsResponse(t)
    \/ GetDetailsJson(t)
    \/ Return(t)

\* the host drives one operation at a time
Next == Tick \/ \E t \in SeqTasks : Step(t)

Spec == Init /\ [][Next]_vars

----------------------------------------------------------------------------
(* Concurrent callers: several tasks call coroutines of the one client,    *)
(* and their steps interleave at every await.  The server's answers are    *)
(* drawn from fewer cases, and a call keeps no record of the state it      *)
(* was made in.                                                            *)

ConcCookieLists == {<<>>, <<"sid=1">>, <<"sid=2">>}
ConcPostOutcomes(cookieLists) ==
    {r \in PostOutcomes(cookieLists) : r.kind = "response" /\ r.status \in {200, 401}}
ConcLoginBodies ==
    {b \in LoginBodies : b.kind = "json" /\ b.code \in {"\"200\"", "\"401\""}
                            /\ b.msg = Absent /\ b.result.kind = "obj"}
ConcListBodies ==
    {b \in ListBodies : b.kind = "json" /\ b.code \in {"\"200\"", "\"401\""}
                           /\ b.msg = Absent /\ b.result = EmptyResult}
ConcControlBodies ==
    {b \in ControlBodies : b.kind = "json" /\ b.code \in {"\"200\"", "\"401\""}
                              /\ b.msg = Absent}

StartConc(c, o) ==
    [c EXCEPT !.op = o, !.ret = NoRet, !.posts = NoPosts, !.body = NoBody, !.logins = 0,
              !.pre = NoPre]

ConcCallLogin(t) ==
    /\ task[t].pc = "idle"
    /\ Apply(t, login(StartConc(Ctx(t), "login")))

ConcCallEnsureAuthenticated(t) ==
    /\ task[t].pc = "idle"
    /\ Apply(t, ensure_authenticated(StartConc(Ctx(t), "ensure_authenticated")))

ConcCallTestConnection(t) ==
    /\ task[t].pc = "idle"
    /\ Apply(t, login(StartConc(Ctx(t), "test_connection")))

ConcCallGetDevices(t) ==
    /\ task[t].pc = "idle"
    /\ Apply(t, get_devices(StartConc(Ctx(t), "get_devices")))

ConcCallControlDevice(t) ==
    /\ task[t].pc = "idle"
    /\ \E operation \in Operations :
          Apply(t, control_device(StartConc(Ctx(t), "control_device"), operation, operation))

ConcLoginResponse(t) ==
    /\ task[t].pc = "login_post"
    /\ \E r \in ConcPostOutcomes(ConcCookieLists) :
          Apply(t, AfterLogin(login_response(Ctx(t), r)))

ConcLoginJson(t) ==
    /\ task[t].pc = "login_json"
    /\ \E b \in ConcLoginBodies : Apply(t, AfterLogin(login_json(Ctx(t), b)))

ConcGetDevicesResponse(t) ==
    /\ task[t].pc = "gd_post"
    /\ \E r \in ConcPostOutcomes({<<>>}) :
          Apply(t, AfterGetDevices(get_devices_response(Ctx(t), r)))

ConcGetDevicesJson(t) ==
    /\ task[t].pc = "gd_json"
    /\ \E b \in ConcListBodies : Apply(t, AfterGetDevices(get_devices_json(Ctx(t), b)))

ConcControlDeviceResponse(t) ==
    /\ task[t].pc = "cd_post"
    /\ \E r \in ConcPostOutcomes({<<>>}) : Apply(t, control_device_response(Ctx(t), r))

ConcControlDeviceJson(t) ==
    /\ task[t].pc = "cd_json"
    /\ \E b \in ConcControlBodies : Apply(t, control_device_json(Ctx(t), b))

ConcStep(t) ==
    \/ ConcCallLogin(t)
    \/ ConcCallEnsureAuthenticated(t)
    \/ ConcCallTestConnection(t)
    \/ ConcCallGetDevices(t)
    \/ ConcCallControlDevice(t)
    \/ ConcLoginResponse(t)
    \/ ConcLoginJson(t)
    \/ ConcGetDevicesResponse(t)
    \/ ConcGetDevicesJson(t)
    \/ ConcControlDeviceResponse(t)
    \/ ConcControlDeviceJson(t)
    \/ Return(t)

ConcNext == Tick \/ \E t \in AllTasks : ConcStep(t)

ConcSpec == Init /\ [][ConcNext]_vars

----------------------------------------------------------------------------
(* Vocabulary of the properties *)

\* a call of coroutine o by task t has ended and its result is being handed back
Ended(t, o) == task[t].pc = "done" /\ task[t].op = o

\* task t is inside a call of list-devices or control
InListOrControl(t) == task[t].op \in {"get_devices", "control_device"}

\* the success predicate as the interface states it
SuccessCoded(b) == b.code \in {"\"200\"", "200"} \/ b.msg = SuccessMsg

\* an expiry signal: HTTP 401/403, body code 401/403, or the re-login message
ExpirySignal(tk) ==
    \/ tk.ret.http \in {401, 403}
    \/ tk.body.kind = "json" /\ ~SuccessCoded(tk.body)
          /\ (tk.body.code \in {"\"401\"", "401"} \/ tk.body.msg = ReloginMsg)

\* the debounce window was open when the call was made
InWindow(pre) == pre.last > 0 /\ pre.now - pre.last < AvoidRefreshMs

----------------------------------------------------------------------------
(* C1: a list-devices or control call of a client holding a session that   *)
(* receives an expiry signal does exactly one re-login and exactly one     *)
(* retried call (two POSTs to its endpoint in all).                        *)
C1_RetryOnceOnExpiry ==
    \A t \in SeqTasks :
        (/\ task[t].pc = "done"
         /\ InListOrControl(t)
         /\ ~Falsy(task[t].pre.uid)
         /\ ~Falsy(task[t].pre.sid)
         /\ ExpirySignal(task[t]))
        => /\ task[t].posts.login = 1
           /\ task[t].posts.list + task[t].posts.control = 2

----------------------------------------------------------------------------
(* C2: a list-devices or control call makes at most two POSTs to its       *)
(* endpoint and at most one login, and it terminates: while it is          *)
(* suspended its next step is enabled (the POST is answered or times out), *)
(* and each of its steps brings it strictly closer to its end.             *)

\* the awaits a suspended call still has before it, at most
Rank(tk) ==
    CASE tk.pc \in {"gd_post", "cd_post", "det_post"} -> 2
      [] tk.pc \in {"gd_json", "cd_json", "det_json"} -> 1
      [] tk.pc = "login_post" -> IF tk.op = "test_connection" THEN 4 ELSE 2
      [] tk.pc = "login_json" -> IF tk.op = "test_connection" THEN 3 ELSE 1
      [] OTHER -> 0

Suspended(t) == task[t].pc \notin {"idle", "done"}

----------------------------------------------------------------------------
(* C3: a login call either succeeds and sets the user id and the session   *)
(* token from its one response, or fails and leaves both as they were      *)
(* when it was called.                                                     *)
C3_LoginAllOrNothing ==
    \A t \in SeqTasks :
        Ended(t, "login") =>
            \/ /\ task[t].ret.status = "returned"
               /\ task[t].body.kind = "json"
               /\ task[t].body.result.hasId
               /\ user_id = task[t].body.result.id
               /\ session_id = JoinCookies(task[t].cookies)
            \/ /\ task[t].ret.status = "raised"
               /\ user_id = task[t].pre.uid
               /\ session_id = task[t].pre.sid

\* a login by a client holding a session failed on a success-coded response
\* that has no result.id
C3_Witness ==
    /\ Ended(1, "login")
    /\ task[1].ret.status = "raised"
    /\ task[1].pre.uid \in UserIds
    /\ task[1].body.kind = "json"
    /\ SuccessCoded(task[1].body)
    /\ ~task[1].body.result.hasId
    /\ task[1].cookies # <<>>

----------------------------------------------------------------------------
(* C4: a list-devices call made inside the debounce window returns an      *)
(* empty list without a POST and without an error; one made outside it     *)
(* (or with no control call before) sends the POST to the device-list      *)
(* endpoint.                                                               *)
C4_DebounceThenRequest ==
    \A t \in SeqTasks :
        (task[t].op = "get_devices" /\ task[t].pc # "idle") =>
            IF InWindow(task[t].pre)
            THEN /\ task[t].pc = "done"
                 /\ task[t].ret.status = "returned"
                 /\ task[t].ret.devices = <<>>
                 /\ task[t].posts.list = 0
            ELSE task[t].posts.list = 1

----------------------------------------------------------------------------
(* C5: test_connection never raises, and returns true only if its login    *)
(* succeeded and the device-list endpoint was called and answered with     *)
(* success.                                                                *)
C5_TestConnectionEndToEnd ==
    \A t \in SeqTasks :
        Ended(t, "test_connection") =>
            /\ task[t].ret.status = "returned"
            /\ task[t].ret.flag =>
                  /\ task[t].logins = 1
                  /\ task[t].posts.list = 1
                  /\ task[t].body.kind = "json"
                  /\ SuccessCoded(task[t].body)

----------------------------------------------------------------------------
(* C6: for login, list-devices and control and every parsed HTTP-200 body, *)
(* the operation succeeds exactly when the body is success-coded.          *)
C6_SuccessIffSuccessCoded ==
    \A t \in SeqTasks :
        (/\ task[t].pc = "done"
         /\ task[t].op \in {"login", "get_devices", "control_device"}
         /\ task[t].body.kind = "json")
        => (task[t].ret.status = "returned" <=> SuccessCoded(task[t].body))

(* C6 as amended: the operation fails whenever the body is not             *)
(* success-coded; on a success-coded body control succeeds, login succeeds *)
(* exactly when result is an object holding an id, and list-devices        *)
(* succeeds exactly when result is not null.                               *)
C6_SuccessIffSuccessCodedAndUsable ==
    \A t \in SeqTasks :
        (/\ task[t].pc = "done"
         /\ task[t].op \in {"login", "get_devices", "control_device"}
         /\ task[t].body.kind = "json")
        => (task[t].ret.status = "returned" <=>
                /\ SuccessCoded(task[t].body)
                /\ task[t].op = "login" =>
                      task[t].body.result.kind = "obj" /\ task[t].body.result.hasId
                /\ task[t].op = "get_devices" => task[t].body.result.kind # "null")

\* a control call succeeded on a body whose only success mark is the number 200
C6_Witness ==
    /\ Ended(1, "control_device")
    /\ task[1].body.kind = "json"
    /\ task[1].body.code = "200"
    /\ task[1].body.msg # SuccessMsg
    /\ task[1].ret.status = "returned"

----------------------------------------------------------------------------
(* C7: on a successful device-list response list-devices returns the       *)
(* concatenation of the areas' data, in area order and then in order       *)
(* within the area; with result or areas missing or empty it returns the   *)
(* empty list.                                                             *)

DataOf(area) == IF area.hasData THEN area.data ELSE <<>>

RECURSIVE TotalLen(_, _)
TotalLen(areas, n) == IF n = 0 THEN 0 ELSE TotalLen(areas, n - 1) + Len(DataOf(areas[n]))

\* devs is the areas' data laid end to end
IsConcatenation(devs, areas) ==
    /\ Len(devs) = TotalLen(areas, Len(areas))
    /\ \A i \in 1..Len(areas) :
          \A j \in 1..Len(DataOf(areas[i])) :
              devs[TotalLen(areas, i - 1) + j] = DataOf(areas[i])[j]

AreasOf(res) == IF res.kind = "obj" /\ res.hasAreas THEN res.areas ELSE <<>>

----------------------------------------------------------------------------
(* C8: a list-devices or control call made by a client with no user id     *)
(* logs in first and then goes on; it does not fail for having been        *)
(* unauthenticated.                                                        *)
C8_BootstrapLogin ==
    \A t \in SeqTasks :
        (/\ task[t].pc = "done"
         /\ InListOrControl(t)
         /\ Falsy(task[t].pre.uid)
         /\ ~(task[t].op = "get_devices" /\ InWindow(task[t].pre)))
        => /\ task[t].posts.login = 1
           /\ task[t].ret.cause # "Not authenticated"

----------------------------------------------------------------------------
(* C9: every control call records the time of the call as the debounce     *)
(* timestamp before its POST, whatever its outcome, also when the client   *)
(* was unauthenticated on entry.                                           *)
C9_ControlAlwaysStamps ==
    \A t \in SeqTasks :
        (task[t].op = "control_device" /\ task[t].pc # "idle")
        => last_update_time = task[t].pre.now

----------------------------------------------------------------------------
(* C10: an HTTP-200 response whose body is not JSON makes login,           *)
(* list-devices and control fail with a ConnectionError and leaves the     *)
(* session state unchanged.                                                *)
C10_MalformedBodyIsConnectionError ==
    \A t \in SeqTasks :
        (/\ task[t].pc = "done"
         /\ task[t].op \in {"login", "get_devices", "control_device"}
         /\ task[t].body.kind = "bad")
        => /\ task[t].ret.status = "raised"
           /\ task[t].ret.kind = "ConnectionError"
           /\ user_id = task[t].pre.uid
           /\ session_id = task[t].pre.sid

----------------------------------------------------------------------------
(* C11: login fails for every HTTP status other than 200 without reading   *)
(* the body, as an AuthError for 401 and 403 and as a ConnectionError for  *)
(* any other status, a timeout or a transport failure.                     *)
C11_LoginErrorKinds ==
    \A t \in SeqTasks :
        (Ended(t, "login") /\ task[t].body.kind = "none")
        => /\ task[t].ret.status = "raised"
           /\ task[t].ret.kind = IF task[t].ret.http \in {401, 403}
                                 THEN "AuthError" ELSE "ConnectionError"

----------------------------------------------------------------------------
(* C12: between operations the user id and the session token are both      *)
(* absent or both present; and a list-devices or control call that got an  *)
(* expiry signal cleared both before its re-login, so that it ends with    *)
(* either a new login's pair or no pair at all.                            *)

BothOrNeither == (user_id = None) <=> (session_id = None)

C12_PairedAndClearedOnExpiry ==
    /\ (\A t \in SeqTasks : ~Suspended(t)) => BothOrNeither
    /\ \A t \in SeqTasks :
          (/\ task[t].pc = "done"
           /\ InListOrControl(t)
           /\ ExpirySignal(task[t])
           /\ task[t].logins = 0)
          => user_id = None /\ session_id = None

----------------------------------------------------------------------------
(* C13: the debounce timestamp is changed only by a call of control: no    *)
(* step of login, list-devices, getDetails, test_connection or             *)
(* ensure_authenticated changes it; and login and control do not read it:  *)
(* with any other timestamp in its place each of their steps does the      *)
(* same.                                                                   *)

\* the timestamps the client can hold
Timestamps == {0} \cup {k * TickMs : k \in 1..MaxTicks}

\* x and y differ at most in the timestamp
SameButTimestamp(x, y) ==
    [x EXCEPT !.last = 0, !.pre.last = 0] = [y EXCEPT !.last = 0, !.pre.last = 0]

\* whatever login or control does next for task t, it does with timestamp l too
IgnoresTimestamp(t, l) ==
    LET c == Ctx(t)
        d == [c EXCEPT !.last = l]
    IN  CASE c.pc = "idle" ->
               /\ SameButTimestamp(login(Start(c, "login")), login(Start(d, "login")))
               /\ \A control \in Controls, operation \in Operations :
                     SameButTimestamp(
                         control_device(Start(c, "control_device"), control, operation),
                         control_device(Start(d, "control_device"), control, operation))
          [] c.pc = "login_post" ->
               \A r \in PostOutcomes(CookieLists) :
                   SameButTimestamp(login_response(c, r), login_response(d, r))
          [] c.pc = "login_json" ->
               \A b \in LoginBodies : SameButTimestamp(login_json(c, b), login_json(d, b))
          [] c.pc = "cd_post" ->
               \A r \in PostOutcomes({<<>>}) :
                   SameButTimestamp(control_device_response(c, r),
                                    control_device_response(d, r))
          [] c.pc = "cd_json" ->
               \A b \in ControlBodies :
                   SameButTimestamp(control_device_json(c, b), control_device_json(d, b))
          [] OTHER -> TRUE

C13_TimestampFrame ==
    /\ [][last_update_time' # last_update_time =>
             \E t \in SeqTasks :
                 /\ task[t].pc = "idle"
                 /\ task[t]'.op = "control_device"
                 /\ last_update_time' = now]_vars
    /\ [](\A t \in SeqTasks : \A l \in Timestamps : IgnoresTimestamp(t, l))

\* the timestamp a control call left is still there after getDetails has
\* returned devices
C13_Witness ==
    /\ Ended(1, "getDetails")
    /\ task[1].ret.status = "returned"
    /\ last_update_time > 0
    /\ last_update_time = task[1].pre.last

----------------------------------------------------------------------------
(* C14: a successful login whose response carried no cookies leaves the    *)
(* session token empty and the user id set, and the client counts as       *)
(* authenticated: a following list-devices or control call sends its POST  *)
(* without a Cookie header and without a login.                            *)
C14_CookielessLoginIsAuthenticated ==
    /\ \A t \in SeqTasks :
          (/\ Ended(t, "login")
           /\ task[t].ret.status = "returned"
           /\ task[t].cookies = <<>>)
          => session_id = "" /\ user_id \in UserIds
    /\ \A t \in SeqTasks :
          (/\ InListOrControl(t)
           /\ task[t].pc # "idle"
           /\ task[t].pre.uid \in UserIds
           /\ task[t].pre.sid = ""
           /\ ~(task[t].op = "get_devices" /\ InWindow(task[t].pre)))
          => /\ task[t].posts.login = 0
             /\ task[t].posts.list + task[t].posts.control = 1
             /\ task[t].pc \in {"gd_post", "cd_post"} =>
                   ~task[t].req.hasCookie /\ task[t].req.userId = task[t].pre.uid

\* the POST of a list-devices call is in flight without a Cookie header, after a
\* login that got no cookies
C14_Witness ==
    /\ task[1].pc = "gd_post"
    /\ last_login.id \in UserIds
    /\ last_login.cookies = <<>>
    /\ session_id = ""
    /\ task[1].req.userId = last_login.id
    /\ ~task[1].req.hasCookie

----------------------------------------------------------------------------
(* C15: every POST of list-devices or control carries the user id of the   *)
(* latest successful login and, as its Cookie header, that login's         *)
(* Set-Cookie values joined, verbatim; the header is there exactly when    *)
(* that token is not empty.                                                *)

\* the Set-Cookie lists of the model, joined as the interface describes
ExpectedToken(cookies) ==
    CASE cookies = <<>> -> ""
      [] cookies = <<"sid=1">> -> "sid=1"
      [] cookies = <<"sid=2">> -> "sid=2"
      [] cookies = <<"sid=1", "tok=9">> -> "sid=1; tok=9"

C15_RequestCarriesLatestLogin ==
    \A t \in SeqTasks :
        task[t].pc \in {"gd_post", "cd_post"} =>
            /\ last_login.id \in UserIds
            /\ task[t].req.userId = last_login.id
            /\ task[t].req.hasCookie <=> ExpectedToken(last_login.cookies) # ""
            /\ task[t].req.hasCookie =>
                  task[t].req.cookie = ExpectedToken(last_login.cookies)

\* a control POST is in flight with both cookies of the latest login
C15_Witness ==
    /\ task[1].pc = "cd_post"
    /\ last_login.cookies = <<"sid=1", "tok=9">>
    /\ task[1].req.hasCookie
    /\ task[1].req.cookie = "sid=1; tok=9"
    /\ task[1].req.userId = "u2"

----------------------------------------------------------------------------
(* C16: the "control" and "operation" fields of a control POST are equal,  *)
(* both the JSON text of the operation argument; the control argument has  *)
(* no influence: from one client state, calls with the same operation and  *)
(* different control arguments send the same POST and reach the same       *)
(* state.                                                                  *)

\* the JSON text of the operation arguments of the model
ExpectedJson(operation) ==
    CASE operation = << <<"power", "\"y\"">> >> -> "{\"power\": \"y\"}"
      [] operation = << <<"mode", "\"cool\"">> >> -> "{\"mode\": \"cool\"}"

----------------------------------------------------------------------------
(* C17: in the setup flow, which tests the connection of a new client, the *)
(* error shown follows the kind of the failure: invalid_auth for an        *)
(* authentication failure, cannot_connect for a connection failure         *)
(* (transport error, timeout, non-200 status, malformed body), unknown for *)
(* any other; an entry is created only when login and listing succeeded.   *)

\* the client was new when the call was made
NewClient(pre) == pre.uid = None /\ pre.sid = None /\ pre.last = 0

\* what the flow is to show for the way the connection test ended
ExpectedFlowResult(tk) ==
    IF tk.ret.flag /\ tk.logins = 1 /\ tk.posts.list = 1 /\ SuccessCoded(tk.body)
    THEN "create_entry"
    ELSE CASE tk.ret.http \in {401, 403} -> "invalid_auth"
           [] tk.ret.cause \in {"Login failed", "No user ID in response", "TypeError"}
                -> "invalid_auth"
           [] tk.ret.cause \in {"ClientError", "TimeoutError", "HTTP error",
                                "Invalid response format", "JSONDecodeError"}
                -> "cannot_connect"
           [] OTHER -> "unknown"

C17_FlowErrorFollowsFailureKind ==
    \A t \in SeqTasks :
        (Ended(t, "test_connection") /\ NewClient(task[t].pre))
        => async_step_user(task[t].ret) = ExpectedFlowResult(task[t])

----------------------------------------------------------------------------
(* C19: once a login has succeeded, a further ensure_authenticated call    *)
(* sends no POST and leaves the user id and the session token as they      *)
(* are, whatever the login response contained.                             *)
C19_EnsureAuthenticatedIdempotent ==
    \A t \in SeqTasks :
        (Ended(t, "ensure_authenticated") /\ task[t].pre.uid \in UserIds)
        => /\ task[t].posts.login = 0
           /\ task[t].ret.status = "returned"
           /\ user_id = task[t].pre.uid
           /\ session_id = task[t].pre.sid

(* C19 as amended: the same, for a login whose response carried a          *)
(* non-empty session token.                                                *)
C19_EnsureAuthenticatedIdempotentWithToken ==
    \A t \in SeqTasks :
        (/\ Ended(t, "ensure_authenticated")
         /\ task[t].pre.uid \in UserIds
         /\ task[t].pre.sid # "")
        => /\ task[t].posts.login = 0
           /\ task[t].ret.status = "returned"
           /\ user_id = task[t].pre.uid
           /\ session_id = task[t].pre.sid
           /\ last_login.id = user_id

\* ensure_authenticated has returned on a client logged in with two cookies
C19_Witness ==
    /\ Ended(1, "ensure_authenticated")
    /\ task[1].pre.uid \in UserIds
    /\ task[1].pre.sid = "sid=1; tok=9"
    /\ task[1].posts.login = 0

----------------------------------------------------------------------------
(* C18: with several tasks calling one client and interleaving at every    *)
(* await, the stored user id and session token are always those of one     *)
(* login response, the latest one stored (or both unset before any), and   *)
(* every list or control request is built from that one response: its      *)
(* userId is the response's id and its Cookie header, if any, is the       *)
(* response's cookies joined.                                              *)

\* the stored pair is the pair of the latest stored login response
PairFromOneLogin ==
    IF last_login = NoLogin
    THEN user_id = None /\ session_id = None
    ELSE user_id = last_login.id /\ session_id = ExpectedToken(last_login.cookies)

\* task t sends a list or control request in this step
Sends(t) ==
    /\ task'[t].pc \in {"gd_post", "cd_post"}
    /\ task[t].pc \notin {"gd_post", "cd_post"}

\* the request task t has just sent is built from the latest stored login
SentFromOneLogin(t) ==
    /\ last_login' # NoLogin
    /\ task'[t].req.userId = last_login'.id
    /\ task'[t].req.hasCookie <=> ExpectedToken(last_login'.cookies) # ""
    /\ task'[t].req.hasCookie =>
          task'[t].req.cookie = ExpectedToken(last_login'.cookies)

C18_PairFromOneLogin ==
    /\ []PairFromOneLogin
    /\ [][\A t \in AllTasks : Sends(t) => SentFromOneLogin(t)]_vars

\* task 2's connection test has logged in and has its list request in
\* flight; meanwhile task 1's login has stored another user's pair
C18_Witness ==
    /\ task[2].op = "test_connection"
    /\ task[2].pc = "gd_post"
    /\ task[2].logins = 1
    /\ Ended(1, "login")
    /\ task[1].logins = 1
    /\ task[2].req.userId # user_id
    /\ task[2].req.cookie # session_id
    /\ PairFromOneLogin

====
